---- MODULE Spec2Model ----
(***************************************************************************)
(* Model of the maubot "welcome" plugin (welcome.py): the Greeter plugin   *)
(* reacts to join events of the Matrix client, and for each live join in a *)
(* monitored room sends a welcome notice, notifies an admin room, and      *)
(* sends the joining user a direct message with an invite link minted by   *)
(* an external SSO API.                                                    *)
(*                                                                         *)
(* The plugin runs on a single-threaded asyncio event loop: every handler  *)
(* is a task that runs without interruption from one suspension point      *)
(* (await of a sleep or of a network call) to the next.  One action of the *)
(* model is one such uninterrupted run.  create_invite uses the blocking   *)
(* `requests.post`, so while it waits for the HTTP response the whole loop *)
(* is blocked.                                                             *)
(***************************************************************************)
EXTENDS Integers, Sequences, FiniteSets, TLC

VARIABLES
    config,       \* self.config, loaded once in start()
    greet,        \* greet[e]: the handler task of join event e (its locals and position)
    invite_task,  \* invite_task[e]: the task created at line 108 for event e
    blocking,     \* the event whose create_invite holds the loop in requests.post, or NoEvent
    arrivals,     \* the join events the client has still to deliver
    faults        \* number of client calls that have raised so far

vars == <<config, greet, invite_task, blocking, arrivals, faults>>

-----------------------------------------------------------------------------
(* Bounds of the model *)

\* client calls that may raise in a run in which two join events are handled; in a run
\* with a single join event any number of calls may raise
MaxFaults == 1

\* the join events: A is the join of alice, B the join of bob
Events == {"A", "B"}
NoEvent == "-"

-----------------------------------------------------------------------------
(* Program constants *)

RETRIES == 3            \* retry(..., retries=3)
SETTLE_DELAY == 5       \* asyncio.sleep(5)

-----------------------------------------------------------------------------
(* Inputs: identifiers, configuration values, results of the remote calls *)

Lobby     == "!lobby:example.org"
OtherRoom == "!other:example.org"
AdminRoom == "!admin:example.org"

Sender(e) == IF e = "A" THEN "@alice:example.org" ELSE "@bob:other.org"
EventRooms == {Lobby, OtherRoom}

\* SyncStream is a Flag enumeration; a value is the set of flags that are set.
SyncStream_STATE == {"STATE"}
Sources == {{"JOINED_ROOM", "TIMELINE"}, {"JOINED_ROOM", "STATE"}}

\* the configurations the model is started with (Config.do_update copies these keys)
Configs ==
    { [rooms                |-> <<Lobby>>,
       message              |-> "Welcome {user}!",
       notification_room    |-> nr,
       notification_message |-> "{user} joined {room}",
       invite_message       |-> "Hi {user}: {invite_link}",
       sso_details          |-> [API_URL |-> "https://auth.example.org/api/v3"]]
      : nr \in {"", AdminRoom} }

\* results get_joined_rooms may return
JoinedRoomsResults == {{Lobby, AdminRoom}, {Lobby}, {}}
\* results get_state_event(room, 'm.room.name') may return (a content with or without a name)
RoomNameResults == {<<"Lobby">>, <<>>}
\* rooms create_room may return
DirectRooms == {"!dm1:example.org", "!dm2:example.org"}
\* answers of the invite API: status code, and the pk of the invitation when created
Statuses == {201, 403, 500}
Tokens == {"abc123", "def456"}

-----------------------------------------------------------------------------
(* Strings *)

RECURSIVE Find(_, _, _)
\* str.find: index (1-based) of the first occurrence of sub in s at or after from, 0 if none
Find(s, sub, from) ==
    IF from + Len(sub) - 1 > Len(s) THEN 0
    ELSE IF SubSeq(s, from, from + Len(sub) - 1) = sub THEN from
    ELSE Find(s, sub, from + 1)

RECURSIVE Split(_, _)
\* str.split(sep): the pieces of s between the occurrences of sep
Split(s, sep) ==
    LET k == Find(s, sep, 1) IN
    IF k = 0 THEN <<s>>
    ELSE <<SubSeq(s, 1, k - 1)>> \o Split(SubSeq(s, k + Len(sep), Len(s)), sep)

RECURSIVE Format(_, _)
\* str.format(**kw): every {key} of the template replaced by kw[key]
Format(tpl, kw) ==
    LET open == Find(tpl, "{", 1) IN
    IF open = 0 THEN tpl
    ELSE LET close == Find(tpl, "}", open)
             key   == SubSeq(tpl, open + 1, close - 1)
         IN SubSeq(tpl, 1, open - 1) \o kw[key]
              \o Format(SubSeq(tpl, close + 1, Len(tpl)), kw)

\* client.parse_user_id(sender): (localpart, server) of "@localpart:server"
ParseUserId(user_id) ==
    LET sep == Find(user_id, ":", 1) IN
    <<SubSeq(user_id, 2, sep - 1), SubSeq(user_id, sep + 1, Len(user_id))>>

NickServer(sender) == ParseUserId(sender)[2]

\* nick = self.client.parse_user_id(evt.sender)[0]
Nick(sender) == ParseUserId(sender)[1]

\* user_link = f'<a href="https://matrix.to/#/{evt.sender}">{nick}</a>'
UserLink(sender) ==
    "<a href=\"https://matrix.to/#/" \o sender \o "\">" \o Nick(sender) \o "</a>"

\* room_link = f'<a href="https://matrix.to/#/{evt.room_id}">{evt.room_id}</a>'
RoomLink(room_id) ==
    "<a href=\"https://matrix.to/#/" \o room_id \o "\">" \o room_id \o "</a>"

\* msg = self.config["message"].format(user=user_link)
WelcomeMessage(cfg, sender) == Format(cfg.message, [k \in {"user"} |-> UserLink(sender)])

\* notification_message = self.config['notification_message'].format(user=user_link, room=room_link)
NotificationMessage(cfg, sender, room_id) ==
    Format(cfg.notification_message,
           [k \in {"user", "room"} |-> IF k = "user" THEN UserLink(sender) ELSE RoomLink(room_id)])

\* base_domain = sso_details["API_URL"].split("//")[1].split("/")[0]
BaseDomain(api_url) == Split(Split(api_url, "//")[2], "/")[1]

\* invite_link = f"https://sso.{base_domain}/if/flow/simple-enrollment-flow/?itoken={invite_id}"
InviteLink(api_url, invite_id) ==
    "https://sso." \o BaseDomain(api_url) \o "/if/flow/simple-enrollment-flow/?itoken=" \o invite_id

\* invite_message = self.config["invite_message"].format(user=nick, invite_link=invite_link)
InviteMessage(cfg, sender, invite_id) ==
    Format(cfg.invite_message,
           [k \in {"user", "invite_link"} |->
               IF k = "user" THEN Nick(sender)
               ELSE InviteLink(cfg.sso_details.API_URL, invite_id)])

\* the messages greet formats, tabulated once for the configurations, senders, rooms and
\* invite ids of the model (a failed invite task has the result "")
Senders == {Sender(e) : e \in Events}
WelcomeMessages ==
    [cfg \in Configs |-> [sender \in Senders |-> WelcomeMessage(cfg, sender)]]
NotificationMessages ==
    [cfg \in Configs |-> [sender \in Senders |-> [room_id \in EventRooms |->
        NotificationMessage(cfg, sender, room_id)]]]
InviteMessages ==
    [cfg \in Configs |-> [sender \in Senders |-> [invite_id \in Tokens \cup {""} |->
        InviteMessage(cfg, sender, invite_id)]]]

-----------------------------------------------------------------------------
(* The handler task of one join event *)

\* the outbound calls of one join handling: <<step of greet, function called>>
Keys ==
    { <<"invite", "requests.post">>,
      <<"welcome", "get_joined_rooms">>, <<"welcome", "send_notice">>,
      <<"notify", "get_state_event">>,
      <<"notify", "get_joined_rooms">>, <<"notify", "send_notice">>,
      <<"dm", "create_room">>, <<"dm", "send_text">> }

NoEvt == [sender |-> "", room_id |-> "", source |-> {}]

\* a handler that has not been started: no event delivered yet
IdleTask ==
    [pc           |-> "idle",     \* idle, sleep, call, backoff, await, done (returned), failed (raised)
     evt          |-> NoEvt,      \* the StateEvent greet was called with
     stage        |-> "",         \* the step of greet in progress: welcome, notify, dm
     func         |-> "",         \* the client call awaited (retry's func)
     i            |-> 0,          \* retry's loop variable
     room_id      |-> "",         \* send_if_member's room_id; send_direct_message's room_id
     message      |-> "",         \* the message of the send in progress
     joined_rooms |-> <<>>,       \* send_if_member's joined_rooms: <<>> before the assignment
     roomname     |-> "",         \* greet's roomname
     invite_id    |-> "",         \* greet's invite_id
     error        |-> "",         \* the exception greet ended with
     finished     |-> {},         \* the steps of greet that have returned
     slept        |-> 0,          \* seconds of settling delay slept
     sent         |-> <<>>,       \* the messages delivered (successful send_notice / send_text)
     log          |-> {},         \* warning and error lines logged
     created      |-> "",         \* the room the last successful create_room returned
     \* history of the outbound calls, per call of Keys
     calls        |-> [k \in Keys |-> 0],      \* attempts made
     raises       |-> [k \in Keys |-> 0],      \* attempts that raised
     result       |-> [k \in Keys |-> ""],     \* how the call ended, "" while it has not
     backoff      |-> [k \in Keys |-> <<>>]]   \* the delays retry slept between its attempts

NoTask == [state |-> "none", url |-> "", name |-> "", status |-> 0, result |-> ""]

MonitoredAnyRoom(cfg, room_id) == cfg.rooms # <<>>

\* evt.room_id in self.config["rooms"]
Monitored(cfg, room_id) == \E k \in DOMAIN cfg.rooms : cfg.rooms[k] = room_id

IsStateReplayExact(source) == source = SyncStream_STATE

\* evt.source & SyncStream.STATE
IsStateReplay(source) == (source \cap SyncStream_STATE) # {}

IsMemberOfAny(room_id, joined_rooms) == joined_rooms # {}

\* room_id in joined_rooms
IsMember(room_id, joined_rooms) == room_id \in joined_rooms

ShouldRetryOnceMore(i) == i < RETRIES

\* if i < retries - 1
ShouldRetry(i) == i < RETRIES - 1

BackoffDelayFromTwo(i) == 2 ^ (i + 1)

\* asyncio.sleep(2 ** i)
BackoffDelay(i) == 2 ^ i

RaisesForServerError(status) == status >= 500

\* response.raise_for_status(): 4xx and 5xx raise HTTPError
RaisesForStatus(status) == status >= 400

\* if self.config["notification_room"]:
NotificationConfigured(cfg) == cfg.notification_room # ""

Key(t) == <<t.stage, t.func>>

\* one attempt of the awaited call: the request goes out and the task suspends
Issue(t, stage, f) ==
    [t EXCEPT !.pc = "call", !.stage = stage, !.func = f, !.calls[<<stage, f>>] = @ + 1]

\* retry(func, ...): the loop is entered and the first attempt is made
StartRetry(t, f) == Issue([t EXCEPT !.i = 0], t.stage, f)

RetryWithoutReturn(t, cont) ==
    IF ShouldRetry(t.i) THEN Issue([t EXCEPT !.i = @ + 1], t.stage, t.func) ELSE cont

\* return await func(...): the first attempt that succeeds ends retry, and the caller
\* goes on (cont is the caller's run from there to its next suspension)
RetryReturn(t, cont) == cont

SettledAtOnce(t) == t

\* await asyncio.sleep(5) has returned: the settling delay has elapsed
Settled(t) == [t EXCEPT !.slept = @ + SETTLE_DELAY]

\* send_if_member(room_id, message) up to its first suspension
SendIfMember(t, stage, room_id, message) ==
    StartRetry([t EXCEPT !.stage = stage, !.room_id = room_id, !.message = message,
                         !.joined_rooms = <<>>],
               "get_joined_rooms")

SendDirectMessageTextFirst(t, message) ==
    StartRetry([t EXCEPT !.stage = "dm", !.room_id = "", !.message = message], "send_text")

\* send_direct_message(user_id, message) up to its first suspension
SendDirectMessage(t, message) ==
    StartRetry([t EXCEPT !.stage = "dm", !.room_id = "", !.message = message], "create_room")

AwaitInviteUnchecked(t, cfg, task) ==
    SendDirectMessage([t EXCEPT !.invite_id = task.result],
                      InviteMessages[cfg][t.evt.sender][task.result])

\* greet from "invite_id = await invite_task" on, given the task of the event
AwaitInvite(t, cfg, task) ==
    IF task.state = "done"
    THEN SendDirectMessage([t EXCEPT !.invite_id = task.result],
                           InviteMessages[cfg][t.evt.sender][task.result])
    ELSE IF task.state = "failed"
    THEN [t EXCEPT !.pc = "failed", !.error = "HTTPError"]
    ELSE [t EXCEPT !.pc = "await"]

\* greet from the return of send_if_member on
AfterSendIfMember(t, cfg, task) ==
    LET t1 == [t EXCEPT !.finished = @ \cup {t.stage}, !.joined_rooms = <<>>] IN
    IF t.stage = "welcome" /\ NotificationConfigured(cfg)
    THEN Issue(t1, "notify", "get_state_event")
    ELSE AwaitInvite(t1, cfg, task)

AfterUncaught(t, cfg, task) == [t EXCEPT !.pc = "failed", !.error = t.func]

\* the except clause of send_if_member / send_direct_message, and greet after it
AfterCaught(t, cfg, task) ==
    IF t.stage = "dm"
    THEN [t EXCEPT !.pc = "done", !.finished = @ \cup {"dm"},
                   !.log = @ \cup {"Failed to send direct message to " \o t.evt.sender}]
    ELSE AfterSendIfMember([t EXCEPT !.log = @ \cup {"Failed to send message to " \o t.room_id}],
                           cfg, task)

\* the state of the invite task when create_invite ends after the answer of the API
TaskStateAfterPost(status) == IF RaisesForStatus(status) THEN "failed" ELSE "done"

-----------------------------------------------------------------------------
(* Initial state: the plugin has started, no join event has been delivered *)

Init ==
    /\ config \in Configs
    /\ arrivals \in {{"A"}, {"B"}, {"A", "B"}}
    /\ greet = [e \in Events |-> IdleTask]
    /\ invite_task = [e \in Events |-> NoTask]
    /\ blocking = NoEvent
    /\ faults = 0

LoopNeverBlocked == TRUE

\* the loop is free to run a callback
LoopFree == blocking = NoEvent

\* another client call may raise
MayFail ==
    \/ Cardinality(arrivals \cup {e \in Events : greet[e].pc # "idle"}) = 1
    \/ faults < MaxFaults

-----------------------------------------------------------------------------
(* Actions: one per uninterrupted run of a task *)

\* greet(evt) from its start to its first suspension (or its return)
Greet(e, room_id, source) ==
    /\ LoopFree
    /\ e \in arrivals
    /\ arrivals' = arrivals \ {e}
    /\ LET sender == Sender(e)
           t == [greet[e] EXCEPT !.evt = [sender |-> sender, room_id |-> room_id, source |-> source]] IN
       IF Monitored(config, room_id) /\ ~IsStateReplay(source)
       THEN /\ invite_task' = [invite_task EXCEPT ![e] =
                                 [NoTask EXCEPT !.state = "scheduled", !.name = "invite-" \o sender]]
            /\ greet' = [greet EXCEPT ![e] = [t EXCEPT !.pc = "sleep"]]
       ELSE /\ greet' = [greet EXCEPT ![e] = [t EXCEPT !.pc = "done"]]
            /\ UNCHANGED invite_task
    /\ UNCHANGED <<config, blocking, faults>>

\* create_invite starts: it runs to requests.post, which blocks the loop
RunInviteTask(e) ==
    /\ LoopFree
    /\ invite_task[e].state = "scheduled"
    /\ invite_task' = [invite_task EXCEPT ![e].state = "posting",
                          ![e].url = config.sso_details.API_URL \o "/stages/invitation/invitations/"]
    /\ greet' = [greet EXCEPT ![e].calls[<<"invite", "requests.post">>] = @ + 1]
    /\ blocking' = e
    /\ UNCHANGED <<config, arrivals, faults>>

\* requests.post returns; create_invite runs to its end
PostReturn(e, status, pk) ==
    /\ blocking = e
    /\ invite_task[e].state = "posting"
    /\ \A o \in Events : invite_task[o].result # pk    \* the API mints a new pk each time
    /\ LET state == TaskStateAfterPost(status)
           task == [invite_task[e] EXCEPT
                       !.state = state,
                       !.status = status,
                       !.result = IF state = "done" THEN pk ELSE ""]
           t0 == [greet[e] EXCEPT !.result[<<"invite", "requests.post">>] =
                                      IF state = "done" THEN "ok" ELSE "raised"]
           t == IF status = 403
                THEN [t0 EXCEPT !.log = @ \cup {"403 Forbidden Error"}]
                ELSE t0
       IN /\ invite_task' = [invite_task EXCEPT ![e] = task]
          /\ greet' = [greet EXCEPT ![e] = IF t.pc = "await" THEN AwaitInvite(t, config, task) ELSE t]
    /\ blocking' = NoEvent
    /\ UNCHANGED <<config, arrivals, faults>>

\* asyncio.sleep(5) is over: greet runs to the first call of send_if_member
SettleDone(e) ==
    /\ LoopFree
    /\ greet[e].pc = "sleep"
    /\ invite_task[e].state # "scheduled"
    /\ greet' = [greet EXCEPT ![e] =
                    SendIfMember(Settled(greet[e]), "welcome",
                                 greet[e].evt.room_id,
                                 WelcomeMessages[config][greet[e].evt.sender])]
    /\ UNCHANGED <<config, invite_task, blocking, arrivals, faults>>

\* get_joined_rooms returns
GetJoinedRoomsReturn(e, rooms) ==
    /\ LoopFree
    /\ greet[e].pc = "call" /\ greet[e].func = "get_joined_rooms"
    /\ LET t == [greet[e] EXCEPT !.joined_rooms = <<rooms>>,
                                 !.result[Key(greet[e])] =
                                     IF greet[e].room_id \in rooms THEN "member" ELSE "absent"]
       IN greet' = [greet EXCEPT ![e] =
                    RetryReturn(t,
                        IF IsMember(t.room_id, rooms)
                        THEN StartRetry(t, "send_notice")
                        ELSE AfterSendIfMember(
                                 [t EXCEPT !.log = @ \cup {"Bot is not a member of the room " \o t.room_id}],
                                 config, invite_task[e]))]
    /\ UNCHANGED <<config, invite_task, blocking, arrivals, faults>>

\* send_notice returns
SendNoticeReturn(e) ==
    /\ LoopFree
    /\ greet[e].pc = "call" /\ greet[e].func = "send_notice"
    /\ LET t == [greet[e] EXCEPT
                    !.result[Key(greet[e])] = "ok",
                    !.sent = Append(@, [stage |-> greet[e].stage, func |-> "send_notice",
                                        room_id |-> greet[e].room_id, body |-> greet[e].message])]
       IN greet' = [greet EXCEPT ![e] = RetryReturn(t, AfterSendIfMember(t, config, invite_task[e]))]
    /\ UNCHANGED <<config, invite_task, blocking, arrivals, faults>>

\* get_state_event(evt.room_id, 'm.room.name') returns
GetStateEventReturn(e, content) ==
    /\ LoopFree
    /\ greet[e].pc = "call" /\ greet[e].func = "get_state_event"
    /\ LET t == [greet[e] EXCEPT !.result[Key(greet[e])] = "ok"]
           roomname == IF content # <<>> THEN content[1] ELSE t.evt.room_id
       IN greet' = [greet EXCEPT ![e] =
                       SendIfMember([t EXCEPT !.roomname = roomname], "notify",
                                    config.notification_room,
                                    NotificationMessages[config][t.evt.sender][t.evt.room_id])]
    /\ UNCHANGED <<config, invite_task, blocking, arrivals, faults>>

\* create_room returns
CreateRoomReturn(e, room_id) ==
    /\ LoopFree
    /\ greet[e].pc = "call" /\ greet[e].func = "create_room"
    /\ LET t == [greet[e] EXCEPT !.result[Key(greet[e])] = "ok", !.room_id = room_id,
                                 !.created = room_id]
       IN greet' = [greet EXCEPT ![e] = RetryReturn(t, StartRetry(t, "send_text"))]
    /\ UNCHANGED <<config, invite_task, blocking, arrivals, faults>>

\* send_text returns: send_direct_message and greet return
SendTextReturn(e) ==
    /\ LoopFree
    /\ greet[e].pc = "call" /\ greet[e].func = "send_text"
    /\ LET t == [greet[e] EXCEPT
                    !.result[Key(greet[e])] = "ok",
                    !.sent = Append(@, [stage |-> greet[e].stage, func |-> "send_text",
                                        room_id |-> greet[e].room_id, body |-> greet[e].message])]
       IN greet' = [greet EXCEPT ![e] =
                       RetryReturn(t, [t EXCEPT !.pc = "done", !.finished = @ \cup {"dm"}])]
    /\ UNCHANGED <<config, invite_task, blocking, arrivals, faults>>

\* the awaited client call raises
CallRaise(e) ==
    /\ LoopFree
    /\ MayFail
    /\ greet[e].pc = "call"
    /\ LET t == [greet[e] EXCEPT !.raises[Key(greet[e])] = @ + 1] IN
       greet' = [greet EXCEPT ![e] =
                    IF t.func = "get_state_event"
                    THEN [t EXCEPT !.pc = "failed", !.error = "get_state_event",
                                   !.result[Key(t)] = "raised"]
                    ELSE IF ShouldRetry(t.i)
                    THEN [t EXCEPT !.pc = "backoff",
                                   !.backoff[Key(t)] = Append(@, BackoffDelay(t.i)),
                                   !.log = @ \cup {"Retry for " \o t.func}]
                    ELSE AfterCaught([t EXCEPT !.result[Key(t)] = "raised",
                                               !.log = @ \cup {"Failed " \o t.func \o " after retries"}],
                                     config, invite_task[e])]
    /\ faults' = faults + 1
    /\ UNCHANGED <<config, invite_task, blocking, arrivals>>

\* the backoff sleep of retry is over: the next attempt is made
BackoffDone(e) ==
    /\ LoopFree
    /\ greet[e].pc = "backoff"
    /\ greet' = [greet EXCEPT ![e] = Issue([greet[e] EXCEPT !.i = @ + 1], greet[e].stage, greet[e].func)]
    /\ UNCHANGED <<config, invite_task, blocking, arrivals, faults>>

Next ==
    \/ \E e \in Events, r \in EventRooms, src \in Sources : Greet(e, r, src)
    \/ \E e \in Events : RunInviteTask(e)
    \/ \E e \in Events, st \in Statuses, pk \in Tokens : PostReturn(e, st, pk)
    \/ \E e \in Events : SettleDone(e)
    \/ \E e \in Events, rooms \in JoinedRoomsResults : GetJoinedRoomsReturn(e, rooms)
    \/ \E e \in Events : SendNoticeReturn(e)
    \/ \E e \in Events, c \in RoomNameResults : GetStateEventReturn(e, c)
    \/ \E e \in Events, r \in DirectRooms : CreateRoomReturn(e, r)
    \/ \E e \in Events : SendTextReturn(e)
    \/ \E e \in Events : CallRaise(e)
    \/ \E e \in Events : BackoffDone(e)

Spec == Init /\ [][Next]_vars

\* the handling of event e goes on: a timer of it fires or a call of it returns
Returns(e) ==
    \/ RunInviteTask(e)
    \/ \E st \in Statuses, pk \in Tokens : PostReturn(e, st, pk)
    \/ SettleDone(e)
    \/ \E rooms \in JoinedRoomsResults : GetJoinedRoomsReturn(e, rooms)
    \/ SendNoticeReturn(e)
    \/ \E c \in RoomNameResults : GetStateEventReturn(e, c)
    \/ \E r \in DirectRooms : CreateRoomReturn(e, r)
    \/ SendTextReturn(e)
    \/ BackoffDone(e)

\* the calls and timers of event B always come back, those of event A need not
SpecBReturns == Spec /\ WF_vars(Returns("B"))

-----------------------------------------------------------------------------
(* Properties *)

Started(e) == greet[e].pc # "idle"
Terminated(e) == greet[e].pc \in {"done", "failed"}

\* no outbound call was made for event e, and nothing else happened for it
NoOutbound(e) ==
    /\ \A k \in Keys : greet[e].calls[k] = 0
    /\ invite_task[e].state = "none"
    /\ greet[e].sent = <<>>
    /\ greet[e].log = {}
    /\ greet[e].slept = 0

\* number of messages delivered for event e in step s of greet
Delivered(e, s) == Cardinality({j \in DOMAIN greet[e].sent : greet[e].sent[j].stage = s})

GuardedSends == {"welcome", "notify"}
RetryKeys == Keys \ {<<"invite", "requests.post">>, <<"notify", "get_state_event">>}

\* the room of the guarded send of step s for event e
SendRoom(e, s) == IF s = "welcome" THEN greet[e].evt.room_id ELSE config.notification_room

\* the guarded send of step s failed for event e: one of its two calls ran out of attempts
SendFailed(e, s) ==
    \/ greet[e].result[<<s, "get_joined_rooms">>] = "raised"
    \/ greet[e].result[<<s, "send_notice">>] = "raised"

\* greet has reached "invite_id = await invite_task" for event e
AwaitReached(e) ==
    greet[e].stage = "dm" \/ greet[e].pc = "await" \/ greet[e].error = "HTTPError"

\* a direct-message call has been made for event e
DirectAttempted(e) ==
    greet[e].calls[<<"dm", "create_room">>] > 0 \/ greet[e].calls[<<"dm", "send_text">>] > 0

\* the string s ends with suffix (the invite message template ends with the invite link,
\* and the link with its itoken parameter)
EndsWith(s, suffix) ==
    Len(s) >= Len(suffix) /\ SubSeq(s, Len(s) - Len(suffix) + 1, Len(s)) = suffix

\* C1: a join event whose source carries the STATE flag causes no outbound call at all
\* (no invite POST, no membership check, no send, no lookup, no room creation): greet
\* returns at once.
C1_ReplayNoOutboundCall ==
    \A e \in Events :
        (Started(e) /\ "STATE" \in greet[e].evt.source)
            => (NoOutbound(e) /\ greet[e].pc = "done")

C1_Witness ==
    \E e \in Events :
        /\ Started(e) /\ "STATE" \in greet[e].evt.source
        /\ greet[e].evt.room_id = Lobby

\* C2: a join event in a room outside the configured allow-list causes no outbound call
\* and no side effect, whatever its source flags.
C2_UnmonitoredNoOutboundCall ==
    \A e \in Events :
        (Started(e) /\ \A k \in DOMAIN config.rooms : config.rooms[k] # greet[e].evt.room_id)
            => (NoOutbound(e) /\ greet[e].pc = "done")

C2_Witness ==
    \E e \in Events :
        /\ Started(e) /\ greet[e].evt.room_id = OtherRoom
        /\ "STATE" \notin greet[e].evt.source

\* C3: for each join event, whatever the interleaving with the other handler and whatever
\* calls fail, there is at most one invite POST, at most one delivered welcome notice, at
\* most one delivered admin notification and at most one delivered direct message.
C3_AtMostOnce ==
    \A e \in Events :
        /\ greet[e].calls[<<"invite", "requests.post">>] <= 1
        /\ Delivered(e, "welcome") <= 1
        /\ Delivered(e, "notify") <= 1
        /\ Delivered(e, "dm") <= 1
        /\ Len(greet[e].sent) <= 3

C3_Witness ==
    /\ faults >= 1
    /\ \A e \in Events : Len(greet[e].sent) = 3 /\ greet[e].pc = "done"

\* C4: send_notice is attempted only after get_joined_rooms returned a set containing the
\* room. If the returned set lacks the room: no send_notice attempt, an error is logged, the
\* membership check is not repeated, and send_if_member returns. If the membership check
\* runs out of attempts: no send_notice attempt, and send_if_member returns.
C4_SendOnlyIfMember ==
    \A e \in Events : \A s \in GuardedSends :
        LET t  == greet[e]
            gj == <<s, "get_joined_rooms">>
            sn == <<s, "send_notice">>
        IN /\ t.calls[sn] > 0 => t.result[gj] = "member"
           /\ (t.stage = s /\ t.func = "send_notice" /\ t.pc \in {"call", "backoff"})
                 => (t.joined_rooms # <<>> /\ t.room_id \in t.joined_rooms[1])
           /\ t.result[gj] = "absent"
                 => /\ t.calls[sn] = 0
                    /\ ("Bot is not a member of the room " \o SendRoom(e, s)) \in t.log
                    /\ t.calls[gj] = t.raises[gj] + 1
                    /\ s \in t.finished
                    /\ t.error \in {"", "HTTPError", "get_state_event"}
           /\ t.result[gj] = "raised"
                 => /\ t.calls[sn] = 0
                    /\ s \in t.finished
                    /\ t.error \in {"", "HTTPError", "get_state_event"}

C4_Witness ==
    \E e \in Events :
        /\ greet[e].result[<<"welcome", "get_joined_rooms">>] = "absent"
        /\ greet[e].result[<<"notify", "get_joined_rooms">>] = "raised"
        /\ greet[e].stage = "dm"

\* C5: retry makes at most 3 attempts and stops at the first success: a call that raises k
\* times (k = 0, 1, 2) and then succeeds was attempted k+1 times and delivered once; a call
\* that raises 3 times was attempted 3 times, and the failure reached the caller.
C5_RetryAttempts ==
    \A e \in Events : \A k \in RetryKeys :
        LET t == greet[e] IN
        /\ t.calls[k] <= 3
        /\ t.result[k] \in {"ok", "member", "absent"}
              => /\ t.raises[k] \in {0, 1, 2}
                 /\ t.calls[k] = t.raises[k] + 1
                 /\ k[2] \in {"send_notice", "send_text"} => Delivered(e, k[1]) = 1
        /\ t.result[k] = "raised"
              => /\ t.raises[k] = 3 /\ t.calls[k] = 3
                 /\ \/ ("Failed to send message to " \o SendRoom(e, k[1])) \in t.log
                    \/ ("Failed to send direct message to " \o t.evt.sender) \in t.log
        /\ t.result[k] = "" => t.raises[k] <= 2

C5_Witness ==
    \E e \in Events :
        /\ greet[e].result[<<"welcome", "get_joined_rooms">>] = "member"
        /\ greet[e].raises[<<"welcome", "get_joined_rooms">>] = 2
        /\ greet[e].result[<<"welcome", "send_notice">>] = "ok"
        /\ greet[e].raises[<<"welcome", "send_notice">>] = 2
        /\ greet[e].result[<<"dm", "create_room">>] = "raised"

\* C6: the delay retry sleeps doubles from 1 second: 1s after the first failed attempt, 2s
\* after the second, each only when another attempt follows, and none after the last failed
\* attempt.
C6_Backoff ==
    \A e \in Events : \A k \in RetryKeys :
        LET t == greet[e] IN
        /\ Len(t.backoff[k]) <= 2
        /\ \A j \in DOMAIN t.backoff[k] : t.backoff[k][j] = <<1, 2>>[j]
        /\ Len(t.backoff[k]) = IF t.result[k] = "raised" THEN t.raises[k] - 1 ELSE t.raises[k]

C6_Witness ==
    \E e \in Events :
        /\ greet[e].result[<<"welcome", "send_notice">>] = "raised"
        /\ greet[e].backoff[<<"welcome", "send_notice">>] = <<1, 2>>
        /\ greet[e].backoff[<<"welcome", "get_joined_rooms">>] = <<1>>

\* the guarded send of step s is in progress for event e
SendInProgress(e, s) == greet[e].stage = s /\ greet[e].pc \in {"call", "backoff"}

\* the direct-message step of event e is carried out: the invite task is awaited, and
\* send_direct_message is called as soon as the task has its token; only the failure of the
\* invite task itself (raised by the await as HTTPError) keeps the message from being sent
DirectStepCarriedOut(e) ==
    /\ AwaitReached(e)
    /\ invite_task[e].state \in {"done", "failed"}
    /\ invite_task[e].state = "done"
          => (greet[e].calls[<<"dm", "create_room">>] >= 1 /\ greet[e].error = "")
    /\ invite_task[e].state = "failed"
          => (greet[e].pc = "failed" /\ greet[e].error = "HTTPError")

\* the admin notification step of event e is carried out after the welcome send: the room
\* name is looked up, and once the lookup has returned the guarded send of the notification
\* is made (in progress or finished); only an exception of the lookup itself ends greet
NotifyStepCarriedOut(e) ==
    LET lookup == greet[e].result[<<"notify", "get_state_event">>] IN
    /\ greet[e].calls[<<"notify", "get_state_event">>] = 1
    /\ lookup = "" => (greet[e].pc = "call" /\ greet[e].func = "get_state_event")
    /\ lookup = "ok"
          => /\ greet[e].calls[<<"notify", "get_joined_rooms">>] >= 1
             /\ SendInProgress(e, "notify") \/ "notify" \in greet[e].finished
    /\ lookup = "raised" => (greet[e].pc = "failed" /\ greet[e].error = "get_state_event")
    /\ greet[e].error = "get_state_event" => lookup = "raised"

\* C7: a failed guarded send (its retries ran out on the membership check or on the notice
\* send) never aborts the later steps of the same join handling: the failure is logged and
\* not raised out of send_if_member, and greet carries out what follows. After a failed
\* welcome send with a notification room configured, the room name is looked up, the
\* notification send is made once the lookup has returned, and the direct-message step is
\* carried out once the notification send has finished; without a notification room the
\* direct-message step is carried out at once. After a failed notification send the
\* direct-message step is carried out. Nothing but an exception of the lookup or the
\* failure of the invite task ends greet early, and never the failed send.
C7_FailedSendDoesNotAbort ==
    \A e \in Events : \A s \in GuardedSends :
        SendFailed(e, s)
            => /\ s \in greet[e].finished
               /\ ("Failed to send message to " \o SendRoom(e, s)) \in greet[e].log
               /\ greet[e].error \notin {"get_joined_rooms", "send_notice"}
               /\ IF s = "welcome" /\ config.notification_room # ""
                  THEN /\ NotifyStepCarriedOut(e)
                       /\ "notify" \in greet[e].finished => DirectStepCarriedOut(e)
                  ELSE DirectStepCarriedOut(e)

C7_Witness ==
    \E e \in Events :
        /\ SendFailed(e, "welcome") /\ SendFailed(e, "notify")
        /\ Delivered(e, "dm") = 1

\* C8: no direct-room creation and no direct text send is made before the invite call of the
\* event has returned a token and the welcome send (and the admin notification, when one is
\* configured) has finished; the direct message carries the token that call returned.
C8_ForkJoin ==
    \A e \in Events :
        (DirectAttempted(e) \/ greet[e].stage = "dm")
            => /\ invite_task[e].state = "done"
               /\ invite_task[e].result \in Tokens
               /\ greet[e].calls[<<"invite", "requests.post">>] = 1
               /\ "welcome" \in greet[e].finished
               /\ config.notification_room # "" => "notify" \in greet[e].finished
               /\ EndsWith(greet[e].message, "itoken=" \o invite_task[e].result)
               /\ \A j \in DOMAIN greet[e].sent :
                     greet[e].sent[j].stage = "dm"
                        => EndsWith(greet[e].sent[j].body, "itoken=" \o invite_task[e].result)

C8_Witness ==
    /\ config.notification_room # ""
    /\ \A e \in Events : Delivered(e, "dm") = 1

\* C9: when the invite API answers with a non-success status, create_invite raises (after
\* logging a hint when the status is 403); greet, which awaits the task unguarded, ends as a
\* failed task: no direct room is created and no direct message is sent, and when greet
\* fails at the await the welcome and admin notification steps have been carried out.
C9_InviteFailure ==
    \A e \in Events :
        invite_task[e].status >= 400
            => /\ invite_task[e].state = "failed"
               /\ invite_task[e].status = 403 => "403 Forbidden Error" \in greet[e].log
               /\ ~DirectAttempted(e)
               /\ Delivered(e, "dm") = 0
               /\ greet[e].pc # "done"
               /\ ("welcome" \in greet[e].finished
                     /\ (config.notification_room # "" => "notify" \in greet[e].finished))
                     => (greet[e].pc = "failed" /\ greet[e].error = "HTTPError")
               /\ greet[e].error = "HTTPError"
                     => /\ "welcome" \in greet[e].finished
                        /\ config.notification_room # "" => "notify" \in greet[e].finished

C9_Witness ==
    \E e \in Events :
        /\ invite_task[e].status = 403
        /\ greet[e].pc = "failed" /\ greet[e].error = "HTTPError"
        /\ Delivered(e, "welcome") = 1 /\ Delivered(e, "notify") = 1

\* the home-server allow-list of the claim
HomeserverWhitelist == {"example.org"}

\* C10: with the home-server allow-list ["example.org"], a sender on another home-server
\* gets no direct message: no direct-room creation and no text send.
C10_HomeserverGating ==
    \A e \in Events :
        (Started(e) /\ ParseUserId(greet[e].evt.sender)[2] \notin HomeserverWhitelist)
            => ~DirectAttempted(e)

\* C11: events are handled independently: when an outbound call made for event A never
\* returns, the handling of event B, whose own calls return, still runs to completion.
C11_Independent == Started("B") ~> Terminated("B")

\* C12: every outbound call made while handling a join is under the retry policy: a call
\* whose failure is reported (raised to its caller) has been attempted 3 times.
C12_EveryCallRetried ==
    \A e \in Events : \A k \in Keys :
        greet[e].result[k] = "raised" => greet[e].calls[k] = RETRIES

\* the room-name lookup of event e has ended, with an answer or with an exception
LookupEnded(e) == greet[e].result[<<"notify", "get_state_event">>] \in {"ok", "raised"}

\* C13: with a notification room configured, the admin notification is guarded-sent for
\* every qualifying live join, also when the room-name lookup fails or returns no name:
\* once the lookup has ended the guarded send of the notification begins, and the handler
\* goes on to the direct-message step (it reaches the await of the invite task).
C13_NotificationDespiteLookupFailure ==
    \A e \in Events :
        (NotificationConfigured(config) /\ LookupEnded(e))
            => /\ greet[e].calls[<<"notify", "get_joined_rooms">>] >= 1
               /\ Terminated(e) => AwaitReached(e)

\* C14: with the API base https://auth.example.org/api/v3 and the returned token abc123,
\* the invite link put in the direct message is
\* https://sso.example.org/if/flow/simple-enrollment-flow/?itoken=abc123 (and likewise for
\* any other token).
C14_InviteLink ==
    \A e \in Events :
        (greet[e].stage = "dm"
           /\ config.sso_details.API_URL = "https://auth.example.org/api/v3")
            => EndsWith(greet[e].message,
                        "https://sso.example.org/if/flow/simple-enrollment-flow/?itoken="
                            \o greet[e].invite_id)

\* the welcome message expected for the two senders and the template "Welcome {user}!"
ExpectedWelcome(sender) ==
    IF sender = "@alice:example.org"
    THEN "Welcome <a href=\"https://matrix.to/#/@alice:example.org\">alice</a>!"
    ELSE "Welcome <a href=\"https://matrix.to/#/@bob:other.org\">bob</a>!"

\* C15: for a sender @localpart:server and a welcome template containing {user}, the
\* rendered welcome message has {user} replaced by an anchor whose href is
\* https://matrix.to/#/ followed by the full sender identifier and whose text is the
\* localpart: this is the message handed to the guarded send and the body delivered.
C15_TemplateSubstitution ==
    \A e \in Events :
        /\ (greet[e].stage = "welcome" /\ config.message = "Welcome {user}!")
               => greet[e].message = ExpectedWelcome(greet[e].evt.sender)
        /\ \A n \in DOMAIN greet[e].sent :
               (greet[e].sent[n].stage = "welcome" /\ config.message = "Welcome {user}!")
                   => greet[e].sent[n].body = ExpectedWelcome(greet[e].evt.sender)

C15_Witness ==
    /\ Delivered("A", "welcome") = 1 /\ greet["A"].evt.sender = "@alice:example.org"
    /\ greet["A"].sent[1].body
           = "Welcome <a href=\"https://matrix.to/#/@alice:example.org\">alice</a>!"
    /\ Delivered("B", "welcome") = 1 /\ greet["B"].evt.sender = "@bob:other.org"

\* C16: send_direct_message attempts send_text only after a create_room attempt has
\* succeeded, and addresses it to the room create_room returned; each of the two calls is
\* attempted at most 3 times; when create_room runs out of attempts no send_text is
\* attempted; and in every failure case the error is logged and send_direct_message returns
\* without raising (greet returns normally).
C16_SendDirectMessage ==
    \A e \in Events :
        LET t  == greet[e]
            cr == <<"dm", "create_room">>
            st == <<"dm", "send_text">>
            failure == "Failed to send direct message to " \o t.evt.sender
        IN /\ t.calls[st] > 0 => (t.result[cr] = "ok" /\ t.created \in DirectRooms)
           /\ (t.func = "send_text" /\ t.pc \in {"call", "backoff"}) => t.room_id = t.created
           /\ \A n \in DOMAIN t.sent :
                  t.sent[n].func = "send_text" => t.sent[n].room_id = t.created
           /\ t.calls[cr] <= 3 /\ t.calls[st] <= 3
           /\ t.result[cr] = "raised" => (t.calls[st] = 0 /\ t.pc = "done" /\ failure \in t.log)
           /\ t.result[st] = "raised" => (t.pc = "done" /\ failure \in t.log)
           /\ (t.result[cr] = "raised" \/ t.result[st] = "raised") => t.error = ""

C16_Witness ==
    \E e \in Events :
        /\ greet[e].raises[<<"dm", "create_room">>] = 2
        /\ greet[e].result[<<"dm", "create_room">>] = "ok"
        /\ greet[e].calls[<<"dm", "send_text">>] = 3
        /\ greet[e].result[<<"dm", "send_text">>] = "raised"
        /\ greet[e].pc = "done"

\* the client calls: every outbound call but the invite POST
MessagingKeys == Keys \ {<<"invite", "requests.post">>}
\* the calls of the admin notification step: the room-name lookup and the guarded send
NotifyKeys == {k \in Keys : k[1] = "notify"}

\* C17: within one qualifying live join no messaging call (membership check, notice send,
\* room-state lookup, direct-room creation, text send) is made before the settling delay of
\* at least 5 seconds has elapsed, and the welcome guarded send has finished (it succeeded
\* or failed) before the room-state lookup and the admin notification send begin.
C17_StepOrder ==
    \A e \in Events :
        /\ (\E k \in MessagingKeys : greet[e].calls[k] > 0) => greet[e].slept >= 5
        /\ (\E k \in NotifyKeys : greet[e].calls[k] > 0)
               => /\ "welcome" \in greet[e].finished
                  /\ greet[e].stage # "welcome"
                  /\ \/ Delivered(e, "welcome") = 1
                     \/ SendFailed(e, "welcome")
                     \/ greet[e].result[<<"welcome", "get_joined_rooms">>] = "absent"

C17_Witness ==
    \E e \in Events :
        /\ greet[e].slept >= 5
        /\ SendFailed(e, "welcome")
        /\ greet[e].calls[<<"notify", "get_state_event">>] = 1
        /\ greet[e].calls[<<"notify", "send_notice">>] > 0
        /\ greet[e].calls[<<"dm", "send_text">>] > 0

\* the number of outbound call attempts made for event e
Attempts(e) ==
    greet[e].calls[<<"invite", "requests.post">>]
      + greet[e].calls[<<"welcome", "get_joined_rooms">>]
      + greet[e].calls[<<"welcome", "send_notice">>]
      + greet[e].calls[<<"notify", "get_state_event">>]
      + greet[e].calls[<<"notify", "get_joined_rooms">>]
      + greet[e].calls[<<"notify", "send_notice">>]
      + greet[e].calls[<<"dm", "create_room">>]
      + greet[e].calls[<<"dm", "send_text">>]

\* what has happened for event e so far: greet was called, the POST was answered, call
\* attempts were made, calls raised, messages were delivered, steps of greet returned
Work(e) ==
    (IF Started(e) THEN 1 ELSE 0)
      + (IF greet[e].result[<<"invite", "requests.post">>] # "" THEN 1 ELSE 0)
      + Attempts(e)
      + greet[e].raises[<<"welcome", "get_joined_rooms">>]
      + greet[e].raises[<<"welcome", "send_notice">>]
      + greet[e].raises[<<"notify", "get_state_event">>]
      + greet[e].raises[<<"notify", "get_joined_rooms">>]
      + greet[e].raises[<<"notify", "send_notice">>]
      + greet[e].raises[<<"dm", "create_room">>]
      + greet[e].raises[<<"dm", "send_text">>]
      + Len(greet[e].sent)
      + Cardinality(greet[e].finished)

\* C18: when every outbound call eventually returns or fails, the handling of any join
\* event terminates (greet returns or ends with an exception) after at most 20 outbound
\* call attempts: 1 invite POST, 1 room-state lookup, and at most 3 attempts of each of the
\* six calls made under retry. In finite-run form: the attempts are bounded; every step
\* adds to the bounded amount of work done, so no run takes steps for ever; and a handling
\* that has not terminated always has a timer or a call whose return can be taken, its own
\* or that of the POST blocking the loop.
C18_BoundedTermination ==
    /\ [](\A e \in Events :
             /\ Attempts(e) <= 20
             /\ greet[e].calls[<<"invite", "requests.post">>] <= 1
             /\ greet[e].calls[<<"notify", "get_state_event">>] <= 1
             /\ \A k \in RetryKeys : greet[e].calls[k] <= 3
             /\ Work(e) <= 40)
    /\ [][Work("A")' + Work("B")' > Work("A") + Work("B")]_vars
    /\ [](\A e \in Events :
             (Started(e) /\ ~Terminated(e))
                 => \/ ENABLED Returns(e)
                    \/ \E o \in Events \ {e} : blocking = o /\ ENABLED Returns(o))

C18_Witness ==
    \E e \in Events : Attempts(e) = 20 /\ Terminated(e) /\ Len(greet[e].sent) = 3

\* C19: create_invite has no suspension point, so the invite task runs as one
\* uninterruptible step when the handler first suspends at the settling delay: the invite
\* POST of an event has returned or failed before any membership check or welcome notice
\* send is attempted for that event, and while the POST of an event is outstanding no step
\* of the handler of any other event is taken (and its own handler stays at the delay).
C19_PostUninterruptible ==
    /\ [](\A e \in Events :
             /\ (greet[e].calls[<<"welcome", "get_joined_rooms">>] > 0
                   \/ greet[e].calls[<<"welcome", "send_notice">>] > 0)
                    => invite_task[e].state \in {"done", "failed"}
             /\ invite_task[e].state = "posting" => (blocking = e /\ greet[e].pc = "sleep")
             /\ invite_task[e].state = "scheduled" => greet[e].pc = "sleep")
    /\ [][\A e \in Events :
             blocking = e
               => /\ \A o \in Events \ {e} :
                        greet'[o] = greet[o] /\ invite_task'[o] = invite_task[o]
                  /\ arrivals' = arrivals
                  /\ invite_task'[e].state \in {"done", "failed"}]_vars

C19_Witness ==
    /\ blocking = "A"
    /\ invite_task["A"].state = "posting"
    /\ greet["B"].pc = "call"

\* C20: no minted invitation token is left unused: when the invite API returned a token
\* for a qualifying live join, the handler does not end before it has awaited the invite
\* task and attempted a direct message carrying a link with that token, whatever happened
\* in the welcome and admin notification steps.
C20_TokenUsed ==
    \A e \in Events :
        (Terminated(e) /\ invite_task[e].state = "done")
            => /\ AwaitReached(e)
               /\ greet[e].calls[<<"dm", "create_room">>] >= 1
               /\ greet[e].invite_id = invite_task[e].result
               /\ EndsWith(greet[e].message, "?itoken=" \o invite_task[e].result)

====
